---- MODULE Spec2Model ----
(***************************************************************************)
(* The OAuth token lifecycle of youtube-analytics-mcp: AuthManager         *)
(* (src/src/auth/auth-manager.ts).  Every async method is cut at its       *)
(* awaits: one action per resumption, and the synchronous code between two *)
(* awaits is one step.  Several calls may be in flight (Procs); under Spec *)
(* a call starts only when no other call is in flight.                     *)
(***************************************************************************)
EXTENDS Integers, FiniteSets, Sequences, TLC

VARIABLES
    envSet,      \* process.env.YOUTUBE_CREDENTIALS_PATH is set
    credFile,    \* the credential files on disk, by candidate path
    tokenFile,   \* the record at TOKEN_PATH, or NoFile
    tokenMode,   \* the permission bits of the token file
    authClient,  \* AuthManager.authClient: a handle, or NULL
    heap,        \* the credentials held by each OAuth2Client object
    now,         \* Date.now()
    ticks,       \* how often the clock has advanced
    issued,      \* how many tokens the provider has issued
    serial,      \* calls are strictly sequential
    ioFailed,    \* some file operation has failed on a file that was there
    loc,         \* per call: its position, its locals and what it has done
    youtubeClientCache,  \* index.ts: the auth handle the cached YouTubeClient
                         \* wraps, or NULL
    tool,        \* the tool invocation of the dispatch layer, and what it did
    retry        \* a call of YouTubeClient.withRetry: its locals, what it did

vars == <<envSet, credFile, tokenFile, tokenMode, authClient, heap, now,
          ticks, issued, serial, ioFailed, loc, youtubeClientCache, tool,
          retry>>

\* the dispatch layer of index.ts
dispatchVars == <<youtubeClientCache, tool>>

\* what no operation of the AuthManager changes
envVars == <<envSet, credFile, serial, dispatchVars, retry>>

-----------------------------------------------------------------------------
(* Bounds of the model *)

MaxIssued == 2
MaxTicks == 1

Procs == {1, 2}

-----------------------------------------------------------------------------
(* Values *)

NULL == 0
NONE == -1

Handles == 1 .. (Cardinality(Procs) + 2)

FiveMinutes == 5 * 60 * 1000
Hour == 60 * 60 * 1000

\* the clock advances so that a token issued with an hour to live is exactly
\* at the freshness threshold
TickSteps == {Hour - FiveMinutes}

CredPaths == {"env", "user", "bundled"}

NoFile == [type |-> "ENOENT"]

EmptyCreds == [access_token |-> NONE, refresh_token |-> NONE, expiry_date |-> NONE]

\* JavaScript truthiness of an optional string or number: undefined, null,
\* the empty string and 0 are falsy (0 stands for "" and for the number 0).
Falsy(x) == x = NONE \/ x = 0

\* `x || undefined`
OrUndefined(x) == IF Falsy(x) THEN NONE ELSE x

TokenData(cid, rt, at, exp) ==
    [type |-> "authorized_user", client_id |-> cid, client_secret |-> cid,
     refresh_token |-> rt, access_token |-> at, expiry_date |-> exp]

FileExists == tokenFile.type # "ENOENT"

IdleLoc ==
    [pc |-> "idle", op |-> "none", ret |-> 0, auth |-> NULL, client |-> NULL,
     credPath |-> "none", tokenData |-> NoFile,
     status |-> "none", err |-> "none", cause |-> "none",
     retClient |-> NULL, retBool |-> FALSE,
     \* what the call has done so far, and the state it started from
     refreshCalls |-> 0, flows |-> 0, faults |-> FALSE,
     file0 |-> NoFile, cached0 |-> FALSE, cache0 |-> EmptyCreds, now0 |-> 0,
     flowCreds |-> EmptyCreds, flowOk |-> FALSE,
     refreshed |-> EmptyCreds, refreshOk |-> FALSE,
     freshErr |-> "none", freshNoRT |-> FALSE, freshCalls |-> 0,
     probed |-> {}, named |-> {}, resolveFailed |-> FALSE,
     wrapped |-> FALSE,
     revoked |-> FALSE, unlinked |-> FALSE, unlinkFailed |-> FALSE,
     afterRevoke |-> FALSE]

Idle(p) == loc[p].pc \in {"idle", "done"}

-----------------------------------------------------------------------------
(* Credential resolution *)

CREDENTIALS_PATH == IF envSet THEN "env" ELSE "user"

bundledPath == "bundled"

Exists(path) == credFile[path] # "absent"

\* mutant: the message names only the primary path
resolveCredentialsPathShortMessage ==
    IF Exists(CREDENTIALS_PATH)
    THEN [ok |-> TRUE, path |-> CREDENTIALS_PATH,
          probed |-> {CREDENTIALS_PATH}, named |-> {}]
    ELSE IF Exists(bundledPath)
    THEN [ok |-> TRUE, path |-> bundledPath,
          probed |-> {CREDENTIALS_PATH, bundledPath}, named |-> {}]
    ELSE [ok |-> FALSE, path |-> "none",
          probed |-> {CREDENTIALS_PATH, bundledPath},
          named |-> {CREDENTIALS_PATH}]

resolveCredentialsPath ==
    IF Exists(CREDENTIALS_PATH)
    THEN [ok |-> TRUE, path |-> CREDENTIALS_PATH,
          probed |-> {CREDENTIALS_PATH}, named |-> {}]
    ELSE IF Exists(bundledPath)
    THEN [ok |-> TRUE, path |-> bundledPath,
          probed |-> {CREDENTIALS_PATH, bundledPath}, named |-> {}]
    ELSE [ok |-> FALSE, path |-> "none",
          probed |-> {CREDENTIALS_PATH, bundledPath},
          named |-> {CREDENTIALS_PATH, bundledPath}]

\* the locals of a call after it has resolved the credentials
Resolved(l) ==
    LET r == resolveCredentialsPath
    IN [l EXCEPT !.credPath = r.path, !.probed = r.probed, !.named = r.named,
                 !.resolveFailed = ~r.ok]

\* fs.readFile(path), JSON.parse and getOAuthConfig can succeed
getOAuthConfig(path) == Exists(path)

-----------------------------------------------------------------------------
(* The handles: OAuth2Client objects, kept while something refers to them *)

Refs(cache, L) ==
    {cache} \cup {L[p].auth : p \in Procs} \cup {L[p].client : p \in Procs}
            \cup {L[p].retClient : p \in Procs} \cup {youtubeClientCache}

Gc(hp, cache, L) ==
    [h \in Handles |-> IF h \in Refs(cache, L) THEN hp[h] ELSE EmptyCreds]

NewHandle == CHOOSE h \in Handles :
    /\ h \notin Refs(authClient, loc)
    /\ \A k \in Handles : k \notin Refs(authClient, loc) => h <= k

-----------------------------------------------------------------------------
(* The synchronous blocks, as functions of a call's locals *)

\* mutant: the threshold is off by one millisecond
NeedsRefreshOffByOne(c, t) ==
    Falsy(c.expiry_date) \/ c.expiry_date <= t + FiveMinutes + 1

NeedsRefresh(c, t) == Falsy(c.expiry_date) \/ c.expiry_date <= t + FiveMinutes

\* getAuthClient returns handle h to the operation that called it
getAuthClientReturn(l, h, hp) ==
    CASE l.op = "getClient" ->
           [l EXCEPT !.pc = "done", !.status = "returned", !.retClient = h,
                     !.auth = NULL, !.client = NULL]
      [] l.op = "isAuthenticated" ->
           [l EXCEPT !.pc = "done", !.status = "returned",
                     !.retBool = IF h = NULL THEN FALSE
                                 ELSE ~Falsy(hp[h].access_token),
                     !.auth = NULL, !.client = NULL]
      [] l.op = "revoke" ->
           IF h = NULL
           THEN [l EXCEPT !.pc = "done", !.status = "failed",
                          !.err = "AuthenticationError",
                          !.cause = "TypeError",
                          !.auth = NULL, !.client = NULL]
           ELSE [l EXCEPT !.pc = "V_revoke", !.auth = h, !.client = NULL]

\* mutant: isAuthenticated lets the error through
getAuthClientThrowUncaught(l, e, c) ==
    [l EXCEPT !.pc = "done", !.status = "failed", !.err = e,
              !.cause = c, !.auth = NULL, !.client = NULL]

\* getAuthClient fails with error e (class) and cause c (which step failed)
getAuthClientThrow(l, e, c) ==
    CASE l.op = "getClient" ->
           [l EXCEPT !.pc = "done", !.status = "failed", !.err = e,
                     !.cause = c, !.auth = NULL, !.client = NULL]
      [] l.op = "isAuthenticated" ->
           [l EXCEPT !.pc = "done", !.status = "returned", !.retBool = FALSE,
                     !.cause = c, !.auth = NULL, !.client = NULL]
      [] l.op = "revoke" ->
           [l EXCEPT !.pc = "done", !.status = "failed",
                     !.err = "AuthenticationError", !.cause = c,
                     !.auth = NULL, !.client = NULL]

\* mutant: on an AuthenticationError the catch starts getAuthClient() over
authenticateCatchReenters(l, e, c) ==
    IF e \in {"AuthenticationError", "TokenExpiredError"}
    THEN [l EXCEPT !.pc = "G_readTok"]
    ELSE getAuthClientThrow([l EXCEPT !.wrapped = TRUE], "AuthenticationError", c)

\* mutant: after a failed flow the catch tries authenticate() again
authenticateCatchRetries(l, e, c) ==
    IF e \in {"AuthenticationError", "TokenExpiredError"}
    THEN getAuthClientThrow(l, e, c)
    ELSE [l EXCEPT !.pc = "A_resolve"]

\* mutant: the catch wraps every error
authenticateCatchWrapsAll(l, e, c) ==
    getAuthClientThrow([l EXCEPT !.wrapped = TRUE], "AuthenticationError", c)

\* the catch of authenticate(): an AuthenticationError (e, with cause c) is
\* rethrown as it is, any other error is wrapped in a new AuthenticationError
authenticateCatch(l, e, c) ==
    IF e \in {"AuthenticationError", "TokenExpiredError"}
    THEN getAuthClientThrow(l, e, c)
    ELSE getAuthClientThrow([l EXCEPT !.wrapped = TRUE], "AuthenticationError", c)

\* mutant: the catch does not clear the cached client
refreshTokenIfNeededKeepsCache(l, h, c, cache, r) ==
    LET l1 == [l EXCEPT !.auth = h, !.ret = r, !.freshCalls = l.refreshCalls]
    IN IF ~NeedsRefresh(c, now)
       THEN [l |-> [l1 EXCEPT !.pc = "R_ok"], cache |-> cache]
       ELSE IF Falsy(c.refresh_token)
       THEN [l |-> [l1 EXCEPT !.pc = "R_err", !.err = "TokenExpiredError",
                              !.cause = "NoRefreshToken",
                              !.freshErr = "TokenExpiredError",
                              !.freshNoRT = TRUE],
             cache |-> cache]
       ELSE [l |-> [l1 EXCEPT !.pc = "R_refresh", !.refreshCalls = @ + 1],
             cache |-> cache]

\* refreshTokenIfNeeded(auth) up to its first await; r is the step of
\* getAuthClient that called it.  The result is the call's locals and the
\* cached handle.
refreshTokenIfNeeded(l, h, c, cache, r) ==
    LET l1 == [l EXCEPT !.auth = h, !.ret = r, !.freshCalls = l.refreshCalls]
    IN IF ~NeedsRefresh(c, now)
       THEN [l |-> [l1 EXCEPT !.pc = "R_ok"], cache |-> cache]
       ELSE IF Falsy(c.refresh_token)
       THEN [l |-> [l1 EXCEPT !.pc = "R_err", !.err = "TokenExpiredError",
                              !.cause = "NoRefreshToken",
                              !.freshErr = "TokenExpiredError",
                              !.freshNoRT = TRUE],
             cache |-> NULL]
       ELSE [l |-> [l1 EXCEPT !.pc = "R_refresh", !.refreshCalls = @ + 1],
             cache |-> cache]

\* mutant: the error of updateStoredToken is let through as it is
refreshFailedUnwrapped(l, c) ==
    [l EXCEPT !.pc = "R_err",
              !.err = IF c = "FailedToUpdate" THEN "AuthenticationError"
                      ELSE "TokenExpiredError",
              !.cause = c,
              !.freshErr = "TokenExpiredError"]

\* the catch of refreshTokenIfNeeded
refreshFailed(l, c) ==
    [l EXCEPT !.pc = "R_err", !.err = "TokenExpiredError", !.cause = c,
              !.freshErr = "TokenExpiredError"]

\* mutant: no fallback, the failure of step 2 is thrown
authenticateNotTried(l) ==
    getAuthClientThrow(l, "AuthenticationError", "NoValidToken")

\* authenticate() up to its first await
authenticate(l) ==
    [l EXCEPT !.pc = "A_resolve", !.auth = NULL, !.err = "none", !.cause = "none"]

\* mutant: the catch of step 2 reads the token file again
getAuthClientCatchReloads(l) ==
    [l EXCEPT !.auth = NULL, !.err = "none", !.cause = "none",
              !.pc = "G_readTok"]

\* mutant: the catch of step 1 lets the error through
getAuthClientCatchRethrows(l) ==
    LET l0 == [l EXCEPT !.auth = NULL, !.err = "none", !.cause = "none"]
    IN IF l.ret = 1 THEN getAuthClientThrow(l, l.err, l.cause)
       ELSE authenticate(l0)

\* the catch blocks of getAuthClient, entered when refreshTokenIfNeeded has
\* thrown: step 1 goes on to read the token file, step 2 to authenticate()
getAuthClientCatch(l) ==
    LET l0 == [l EXCEPT !.auth = NULL, !.err = "none", !.cause = "none"]
    IN IF l.ret = 1 THEN [l0 EXCEPT !.pc = "G_readTok"]
       ELSE authenticate(l0)

\* mutant: a status check with nothing cached answers false at once
getAuthClientProbeOnly(l) ==
    IF authClient # NULL
    THEN refreshTokenIfNeeded(l, authClient, heap[authClient], authClient, 1)
    ELSE IF l.op = "isAuthenticated"
    THEN [l |-> getAuthClientThrow(l, "AuthenticationError", "NotAuthenticated"),
          cache |-> authClient]
    ELSE [l |-> [l EXCEPT !.pc = "G_readTok"], cache |-> authClient]

\* getAuthClient() up to its first await
getAuthClient(l) ==
    IF authClient # NULL
    THEN refreshTokenIfNeeded(l, authClient, heap[authClient], authClient, 1)
    ELSE [l |-> [l EXCEPT !.pc = "G_readTok"], cache |-> authClient]

\* mutant: the cached client is not cleared
revokeTokenKeepsCache(l, cache) ==
    [l |-> [l EXCEPT !.pc = "V_unlink", !.revoked = TRUE, !.auth = NULL],
     cache |-> cache]

\* revokeToken after auth.revokeCredentials() has succeeded, up to fs.unlink
revokeToken(l, cache) ==
    [l |-> [l EXCEPT !.pc = "V_unlink", !.revoked = TRUE, !.auth = NULL],
     cache |-> NULL]

\* mutant: a failed unlink reaches the outer catch of revokeToken
unlinkRethrown(l, exists) ==
    [l EXCEPT !.pc = "done", !.status = "failed",
              !.err = "AuthenticationError", !.cause = "UnlinkFailed",
              !.faults = @ \/ exists, !.unlinkFailed = exists]

\* the inner catch of revokeToken: fs.unlink has failed (exists: the file was
\* there, so the failure is not ENOENT); the failure is logged
unlinkCaught(l, exists) ==
    [l EXCEPT !.pc = "done", !.status = "returned",
              !.faults = @ \/ exists, !.unlinkFailed = exists]

\* mutant: the record is rebuilt from a refresh response, which carries no
\* refresh token
updateStoredTokenRebuilt(rec, c) ==
    [rec EXCEPT !.access_token = OrUndefined(c.access_token),
                !.expiry_date = OrUndefined(c.expiry_date),
                !.refresh_token = NONE]

\* mutant: a missing token file is read as an empty record
readStoredTokenOrEmpty ==
    [ok |-> TRUE,
     rec |-> IF FileExists THEN tokenFile ELSE TokenData("none", NONE, NONE, NONE)]

\* fs.readFile(TOKEN_PATH) and JSON.parse in updateStoredToken
readStoredToken ==
    IF FileExists THEN [ok |-> TRUE, rec |-> tokenFile]
    ELSE [ok |-> FALSE, rec |-> NoFile]

\* mutant: the new expiry is not stored
updateStoredTokenKeepsExpiry(rec, c) ==
    [rec EXCEPT !.access_token = OrUndefined(c.access_token)]

\* the record updateStoredToken writes
updateStoredToken(rec, c) ==
    [rec EXCEPT !.access_token = OrUndefined(c.access_token),
                !.expiry_date = OrUndefined(c.expiry_date)]

\* mutant: the refresh token is not stored
saveTokenNoRefreshToken(path, c) ==
    TokenData(path, NONE, OrUndefined(c.access_token),
              OrUndefined(c.expiry_date))

\* the record saveToken writes
saveToken(path, c) ==
    TokenData(path, c.refresh_token, OrUndefined(c.access_token),
              OrUndefined(c.expiry_date))

\* the credentials getAuthClient sets on the client it builds
setCredentials(td) ==
    [access_token |-> td.access_token, refresh_token |-> td.refresh_token,
     expiry_date |-> td.expiry_date]

-----------------------------------------------------------------------------
(* Initial states *)

\* Token 1 is the one an earlier run of the program persisted; the provider
\* issues 2, 3, ... during this run.
NextToken == issued + 2

InitTokenFiles ==
    {NoFile} \cup
    {TokenData("user", 1, 1, e) :
        e \in {NONE, Hour - 1000, Hour + FiveMinutes, Hour + FiveMinutes + 1}}

InitCommon ==
    /\ envSet \in BOOLEAN
    /\ credFile \in [CredPaths -> {"absent", "ok"}]
    /\ ~envSet => credFile["env"] = "absent"
    /\ tokenFile \in InitTokenFiles
    /\ tokenMode = IF FileExists THEN "0600" ELSE "none"
    /\ authClient = NULL
    /\ heap = [h \in Handles |-> EmptyCreds]
    /\ now = Hour
    /\ ticks = 0
    /\ issued = 0
    /\ ioFailed = FALSE
    /\ loc = [p \in Procs |-> IdleLoc]

\* no tool has been invoked: `let youtubeClientCache = null`
IdleTool ==
    [pc |-> "idle", name |-> "none", checked |-> FALSE, wraps |-> NULL,
     stale |-> FALSE, isError |-> FALSE]

\* what an error thrown by the wrapped operation carries
NoError == [kind |-> "none", code |-> 0, quota |-> FALSE]

\* withRetry has not been called
IdleRetry ==
    [pc |-> "idle", maxRetries |-> 0, i |-> 0, attempts |-> 0,
     errs |-> <<>>, waits |-> <<>>, result |-> "none", thrown |-> NoError]

InitDispatchLayer ==
    /\ youtubeClientCache = NULL
    /\ tool = IdleTool
    /\ retry = IdleRetry

Init == InitCommon /\ InitDispatchLayer /\ serial = TRUE

-----------------------------------------------------------------------------
(* Actions *)

\* a file operation may fail although its file is there (fault); the
\* interleavings are explored with a file system that does not fail
MayFail(fault) == fault => serial

Step(p, l, cache, hp) ==
    /\ loc' = [q \in Procs |-> IF q = p THEN l
                              ELSE IF serial /\ loc[p].pc \in {"idle", "done"}
                                             /\ Idle(q)
                              THEN IdleLoc ELSE loc[q]]
    /\ authClient' = cache
    /\ heap' = Gc(hp, authClient', loc')
    /\ ioFailed' = (ioFailed \/ l.faults)

\* getAuthClient(), isAuthenticated() or revokeToken() is entered
Enter(p, o) ==
    /\ Idle(p)
    /\ serial => p = 1 /\ \A q \in Procs : Idle(q)
    /\ ~serial => loc[p].pc = "idle"
    /\ LET l0 == [IdleLoc EXCEPT
                    !.op = o, !.status = "running",
                    !.file0 = tokenFile, !.now0 = now,
                    !.cached0 = (authClient # NULL),
                    !.cache0 = IF authClient # NULL THEN heap[authClient]
                               ELSE EmptyCreds,
                    !.afterRevoke = \E q \in Procs :
                                       /\ loc[q].op = "revoke"
                                       /\ loc[q].status = "returned"]
           e == getAuthClient(l0)
       IN Step(p, e.l, e.cache, heap)
    /\ UNCHANGED <<envSet, credFile, serial, tokenFile, tokenMode, now, ticks,
                   issued, retry>>

\* a caller invokes getClient(), isAuthenticated() or revoke()
Call(p, o) ==
    /\ Enter(p, o)
    /\ UNCHANGED dispatchVars

Tick ==
    /\ ticks < MaxTicks
    /\ \A p \in Procs : Idle(p)
    /\ ~serial => \A p \in Procs : loc[p].pc = "idle"
    /\ \E d \in TickSteps : now' = now + d
    /\ ticks' = ticks + 1
    /\ UNCHANGED <<envVars, tokenFile, tokenMode, authClient, heap, issued,
                   ioFailed, loc>>

\* refreshTokenIfNeeded has returned: getAuthClient returns this.authClient
AfterFresh(p) ==
    /\ loc[p].pc = "R_ok"
    /\ Step(p, getAuthClientReturn(loc[p], authClient, heap), authClient, heap)
    /\ UNCHANGED <<envVars, tokenFile, tokenMode, now, ticks, issued>>

\* refreshTokenIfNeeded has failed: the catch of step 1 goes on to read the
\* token file, the catch of step 2 goes on to authenticate()
AfterStale(p) ==
    /\ loc[p].pc = "R_err"
    /\ Step(p, getAuthClientCatch(loc[p]), NULL, heap)
    /\ UNCHANGED <<envVars, tokenFile, tokenMode, now, ticks, issued>>

\* fs.readFile(TOKEN_PATH) and JSON.parse in getAuthClient
ReadToken(p) ==
    /\ loc[p].pc = "G_readTok"
    /\ \/ /\ FileExists
          /\ Step(p, [loc[p] EXCEPT !.pc = "G_resolve", !.tokenData = tokenFile],
                  authClient, heap)
       \/ /\ MayFail(FileExists)
          /\ Step(p, authenticate([loc[p] EXCEPT !.faults = @ \/ FileExists]),
                  NULL, heap)
    /\ UNCHANGED <<envVars, tokenFile, tokenMode, now, ticks, issued>>

\* resolveCredentialsPath() in getAuthClient
ResolveForLoad(p) ==
    /\ loc[p].pc = "G_resolve"
    /\ LET l == Resolved(loc[p])
       IN IF ~l.resolveFailed
          THEN Step(p, [l EXCEPT !.pc = "G_readCred"], authClient, heap)
          ELSE Step(p, authenticate(l), NULL, heap)
    /\ UNCHANGED <<envVars, tokenFile, tokenMode, now, ticks, issued>>

\* fs.readFile(credentialsPath), then the client is built, cached and checked
ReadCredentials(p) ==
    /\ loc[p].pc = "G_readCred"
    /\ \/ /\ getOAuthConfig(loc[p].credPath)
          /\ LET h == NewHandle
                 c == setCredentials(loc[p].tokenData)
                 e == refreshTokenIfNeeded(loc[p], h, c, h, 2)
             IN Step(p, e.l, e.cache, [heap EXCEPT ![h] = c])
       \/ /\ MayFail(getOAuthConfig(loc[p].credPath))
          /\ Step(p, authenticate([loc[p] EXCEPT
                        !.faults = @ \/ getOAuthConfig(loc[p].credPath)]),
                  NULL, heap)
    /\ UNCHANGED <<envVars, tokenFile, tokenMode, now, ticks, issued>>

\* auth.refreshAccessToken() answers
RefreshResponse(p) ==
    /\ loc[p].pc = "R_refresh"
    /\ \/ /\ issued < MaxIssued
          /\ \E e \in {now + Hour, NONE} :
               LET h == loc[p].auth
                   c == [access_token |-> NextToken,
                         refresh_token |-> heap[h].refresh_token,
                         expiry_date |-> e]
               IN Step(p, [loc[p] EXCEPT !.pc = "U_read", !.refreshed = c,
                                         !.refreshOk = TRUE],
                       authClient, [heap EXCEPT ![h] = c])
          /\ issued' = issued + 1
       \/ /\ Step(p, refreshFailed(loc[p], "RefreshFailed"), NULL, heap)
          /\ UNCHANGED issued
    /\ UNCHANGED <<envVars, tokenFile, tokenMode, now, ticks>>

\* fs.readFile(TOKEN_PATH) and JSON.parse in updateStoredToken
UpdateRead(p) ==
    /\ loc[p].pc = "U_read"
    /\ \/ /\ readStoredToken.ok
          /\ Step(p, [loc[p] EXCEPT
                        !.pc = "U_write",
                        !.tokenData = updateStoredToken(readStoredToken.rec,
                                                        heap[loc[p].auth])],
                  authClient, heap)
       \/ /\ MayFail(FileExists)
          /\ Step(p, refreshFailed([loc[p] EXCEPT !.faults = @ \/ FileExists],
                                   "FailedToUpdate"),
                  NULL, heap)
    /\ UNCHANGED <<envVars, tokenFile, tokenMode, now, ticks, issued>>

\* fs.writeFile(TOKEN_PATH) in updateStoredToken
UpdateWrite(p) ==
    /\ loc[p].pc = "U_write"
    /\ \/ /\ tokenFile' = loc[p].tokenData
          /\ tokenMode' = IF FileExists THEN tokenMode ELSE "default"
          /\ Step(p, [loc[p] EXCEPT !.pc = "R_ok"], authClient, heap)
       \/ /\ MayFail(TRUE)
          /\ Step(p, refreshFailed([loc[p] EXCEPT !.faults = TRUE],
                                   "FailedToUpdate"),
                  NULL, heap)
          /\ UNCHANGED <<tokenFile, tokenMode>>
    /\ UNCHANGED <<envVars, now, ticks, issued>>

\* resolveCredentialsPath() in authenticate; with a path, the token directory
\* is made (fs.mkdir, recursive) and the interactive flow starts
AuthResolve(p) ==
    /\ loc[p].pc = "A_resolve"
    /\ LET l == Resolved(loc[p])
       IN IF ~l.resolveFailed
          THEN \/ Step(p, [l EXCEPT !.pc = "A_flow", !.flows = @ + 1],
                       authClient, heap)
               \/ /\ MayFail(TRUE)
                  /\ Step(p, authenticateCatch([l EXCEPT !.faults = TRUE],
                                               "Error", "MkdirFailed"),
                          authClient, heap)
          ELSE Step(p, authenticateCatch(l, "AuthenticationError",
                                         "NoCredentialsFound"),
                    authClient, heap)
    /\ UNCHANGED <<envVars, tokenFile, tokenMode, now, ticks, issued>>

\* the interactive flow of @google-cloud/local-auth ends
FlowResult(p) ==
    /\ loc[p].pc = "A_flow"
    /\ \/ /\ Step(p, authenticateCatch(loc[p], "Error", "FlowFailed"),
                  authClient, heap)
          /\ UNCHANGED issued
       \/ /\ issued < MaxIssued
          /\ \E rt \in {NextToken, NONE} :
               LET h == NewHandle
                   c == [access_token |-> NextToken, refresh_token |-> rt,
                         expiry_date |-> now + Hour]
               IN Step(p, [loc[p] EXCEPT !.pc = "S_resolve", !.client = h,
                                         !.flowCreds = c, !.flowOk = TRUE],
                       h, [heap EXCEPT ![h] = c])
          /\ issued' = issued + 1
       \/ /\ LET h == NewHandle
                 r == IF authClient # NULL THEN authClient ELSE h
             IN Step(p, getAuthClientReturn(loc[p], r, heap), authClient, heap)
          /\ UNCHANGED issued
    /\ UNCHANGED <<envVars, tokenFile, tokenMode, now, ticks>>

\* saveToken has failed: authenticate rethrows its AuthenticationError
SaveFailed(l) ==
    authenticateCatch(l, "AuthenticationError", "FailedToSaveToken")

\* fs.mkdir (recursive) and resolveCredentialsPath() in saveToken
SaveResolve(p) ==
    /\ loc[p].pc = "S_resolve"
    /\ \/ LET l == Resolved(loc[p])
          IN IF ~l.resolveFailed
             THEN Step(p, [l EXCEPT !.pc = "S_readCred"], authClient, heap)
             ELSE Step(p, SaveFailed(l), authClient, heap)
       \/ /\ MayFail(TRUE)
          /\ Step(p, SaveFailed([loc[p] EXCEPT !.faults = TRUE]),
                  authClient, heap)
    /\ UNCHANGED <<envVars, tokenFile, tokenMode, now, ticks, issued>>

\* fs.readFile(credentialsPath) in saveToken, then the record is built
SaveReadCred(p) ==
    /\ loc[p].pc = "S_readCred"
    /\ \/ /\ getOAuthConfig(loc[p].credPath)
          /\ Step(p, [loc[p] EXCEPT
                        !.pc = "S_write",
                        !.tokenData = saveToken(loc[p].credPath, heap[loc[p].client])],
                  authClient, heap)
       \/ /\ MayFail(getOAuthConfig(loc[p].credPath))
          /\ Step(p, SaveFailed([loc[p] EXCEPT
                        !.faults = @ \/ getOAuthConfig(loc[p].credPath)]),
                  authClient, heap)
    /\ UNCHANGED <<envVars, tokenFile, tokenMode, now, ticks, issued>>

\* fs.writeFile(TOKEN_PATH) in saveToken
SaveWrite(p) ==
    /\ loc[p].pc = "S_write"
    /\ \/ /\ tokenFile' = loc[p].tokenData
          /\ tokenMode' = IF FileExists THEN tokenMode ELSE "default"
          /\ Step(p, [loc[p] EXCEPT !.pc = "S_chmod"], authClient, heap)
       \/ /\ MayFail(TRUE)
          /\ Step(p, SaveFailed([loc[p] EXCEPT !.faults = TRUE]), authClient, heap)
          /\ UNCHANGED <<tokenFile, tokenMode>>
    /\ UNCHANGED <<envVars, now, ticks, issued>>

\* fs.chmod(TOKEN_PATH, 0o600) in saveToken, then authenticate returns
\* this.authClient || client
SaveChmod(p) ==
    /\ loc[p].pc = "S_chmod"
    /\ \/ /\ FileExists
          /\ tokenMode' = "0600"
          /\ LET r == IF authClient # NULL THEN authClient ELSE loc[p].client
             IN Step(p, getAuthClientReturn(loc[p], r, heap), authClient, heap)
       \/ /\ MayFail(FileExists)
          /\ Step(p, SaveFailed([loc[p] EXCEPT !.faults = @ \/ FileExists]),
                  authClient, heap)
          /\ UNCHANGED tokenMode
    /\ UNCHANGED <<envVars, tokenFile, now, ticks, issued>>

\* auth.revokeCredentials() answers
RevokeResponse(p) ==
    /\ loc[p].pc = "V_revoke"
    /\ \/ LET e == revokeToken(loc[p], authClient)
          IN Step(p, e.l, e.cache, heap)
       \/ Step(p, [loc[p] EXCEPT !.pc = "done", !.status = "failed",
                                 !.err = "AuthenticationError",
                                 !.cause = "RevokeFailed", !.auth = NULL],
               authClient, heap)
    /\ UNCHANGED <<envVars, tokenFile, tokenMode, now, ticks, issued>>

\* fs.unlink(TOKEN_PATH) in revokeToken
Unlink(p) ==
    /\ loc[p].pc = "V_unlink"
    /\ \/ /\ FileExists
          /\ tokenFile' = NoFile
          /\ tokenMode' = "none"
          /\ Step(p, [loc[p] EXCEPT !.pc = "done", !.status = "returned",
                                    !.unlinked = TRUE],
                  authClient, heap)
       \/ /\ MayFail(FileExists)
          /\ Step(p, unlinkCaught(loc[p], FileExists), authClient, heap)
          /\ UNCHANGED <<tokenFile, tokenMode>>
    /\ UNCHANGED <<envVars, now, ticks, issued>>

Next ==
    \/ \E p \in Procs, o \in {"getClient", "isAuthenticated", "revoke"} : Call(p, o)
    \/ Tick
    \/ \E p \in Procs : AfterFresh(p)
    \/ \E p \in Procs : AfterStale(p)
    \/ \E p \in Procs : ReadToken(p)
    \/ \E p \in Procs : ResolveForLoad(p)
    \/ \E p \in Procs : ReadCredentials(p)
    \/ \E p \in Procs : RefreshResponse(p)
    \/ \E p \in Procs : UpdateRead(p)
    \/ \E p \in Procs : UpdateWrite(p)
    \/ \E p \in Procs : AuthResolve(p)
    \/ \E p \in Procs : FlowResult(p)
    \/ \E p \in Procs : SaveResolve(p)
    \/ \E p \in Procs : SaveReadCred(p)
    \/ \E p \in Procs : SaveWrite(p)
    \/ \E p \in Procs : SaveChmod(p)
    \/ \E p \in Procs : RevokeResponse(p)
    \/ \E p \in Procs : Unlink(p)

Spec == Init /\ [][Next]_vars

\* Calls interleaved at their awaits: a second caller's call may start while
\* the first is suspended.  Each caller makes one call; the state they start
\* from is a fresh process, or one in which an earlier getAuthClient() has
\* cached the client it built from the token file.
InitInterleaved ==
    /\ envSet = FALSE
    /\ credFile \in [CredPaths -> {"absent", "ok"}]
    /\ credFile["env"] = "absent" /\ credFile["bundled"] = "absent"
    /\ tokenFile \in InitTokenFiles
    /\ tokenMode = IF FileExists THEN "0600" ELSE "none"
    /\ \/ /\ authClient = NULL
          /\ heap = [h \in Handles |-> EmptyCreds]
       \/ /\ FileExists
          /\ ~NeedsRefresh(tokenFile, Hour)
          /\ getOAuthConfig(CREDENTIALS_PATH)
          /\ authClient = 1
          /\ heap = [h \in Handles |-> IF h = 1 THEN setCredentials(tokenFile)
                                       ELSE EmptyCreds]
    /\ now = Hour
    /\ ticks = 0
    /\ issued = 0
    /\ ioFailed = FALSE
    /\ serial = FALSE
    /\ loc = [p \in Procs |-> IdleLoc]
    /\ InitDispatchLayer

SpecInterleaved == InitInterleaved /\ [][Next]_vars

-----------------------------------------------------------------------------
(* The dispatch layer (src/src/index.ts): tools are invoked one at a time, *)
(* each handler awaits getYouTubeClient() and then calls the API           *)

authVars == <<envSet, credFile, tokenFile, tokenMode, authClient, heap, now,
              ticks, issued, serial, ioFailed, loc, retry>>

\* no tool invocation is in flight
ToolIdle == tool.pc \in {"idle", "done"} /\ \A q \in Procs : Idle(q)

\* `new YouTubeClient(auth)`: the client keeps the handle it is given
YouTubeClient(auth) == auth

\* getYouTubeClient up to its await: a cached client is returned as it is
getYouTubeClient(cache) ==
    IF cache # NULL THEN [cached |-> TRUE, client |-> cache]
    ELSE [cached |-> FALSE, client |-> NULL]

clearYouTubeClientCache == NULL

\* the handler's API call goes out with the handle the client wraps
ApiCall(t, h) ==
    [t EXCEPT !.pc = "api", !.wraps = h, !.stale = (h # authClient)]

\* a tool is invoked: its handler awaits getYouTubeClient()
ToolInvoke ==
    /\ serial
    /\ ToolIdle
    /\ LET t == [IdleTool EXCEPT !.name = "api"]
           g == getYouTubeClient(youtubeClientCache)
       IN IF g.cached
          THEN /\ tool' = ApiCall(t, g.client)
               /\ UNCHANGED <<authVars, youtubeClientCache>>
          ELSE /\ Enter(1, "getClient")
               /\ tool' = [t EXCEPT !.pc = "getClient", !.checked = TRUE]
               /\ UNCHANGED youtubeClientCache

\* authManager.getAuthClient() has settled: the client is built and cached,
\* or the cache is cleared and the handler reports the error
GetClientResult ==
    /\ tool.pc = "getClient"
    /\ loc[1].pc = "done"
    /\ IF loc[1].status = "returned"
       THEN /\ youtubeClientCache' = YouTubeClient(loc[1].retClient)
            /\ tool' = ApiCall(tool, youtubeClientCache')
       ELSE /\ youtubeClientCache' = NULL
            /\ tool' = [tool EXCEPT !.pc = "done", !.isError = TRUE]
    /\ UNCHANGED authVars

\* the API answers the handler
ApiResult ==
    /\ tool.pc = "api"
    /\ \E e \in BOOLEAN : tool' = [tool EXCEPT !.pc = "done", !.isError = e]
    /\ UNCHANGED <<authVars, youtubeClientCache>>

\* the check-auth-status and revoke-auth operations of the layer
AuthTool(o) ==
    /\ serial
    /\ ToolIdle
    /\ Enter(1, o)
    /\ tool' = [IdleTool EXCEPT !.pc = "auth", !.name = o]
    /\ UNCHANGED youtubeClientCache

AuthToolResult ==
    /\ tool.pc = "auth"
    /\ loc[1].pc = "done"
    /\ tool' = [tool EXCEPT !.pc = "done",
                            !.isError = (loc[1].status = "failed")]
    /\ youtubeClientCache' =
          IF tool.name = "revoke" /\ loc[1].status = "returned"
          THEN clearYouTubeClientCache ELSE youtubeClientCache
    /\ UNCHANGED authVars

\* a step of the AuthManager call the invocation is waiting for
AuthStep ==
    \E p \in Procs :
       \/ AfterFresh(p) \/ AfterStale(p) \/ ReadToken(p) \/ ResolveForLoad(p)
       \/ ReadCredentials(p) \/ RefreshResponse(p) \/ UpdateRead(p)
       \/ UpdateWrite(p) \/ AuthResolve(p) \/ FlowResult(p) \/ SaveResolve(p)
       \/ SaveReadCred(p) \/ SaveWrite(p) \/ SaveChmod(p)
       \/ RevokeResponse(p) \/ Unlink(p)

\* Every external call (file operation, refresh call, interactive flow,
\* remote revoke) eventually answers: the call that awaits it is resumed.
\* (From the states with one credential file candidate, the user's.)
InitLive ==
    /\ Init
    /\ envSet = FALSE
    /\ credFile["bundled"] = "absent"

SpecLive == InitLive /\ [][Next]_vars /\ WF_vars(AuthStep)

NextDispatch ==
    \/ ToolInvoke
    \/ GetClientResult
    \/ ApiResult
    \/ \E o \in {"isAuthenticated", "revoke"} : AuthTool(o)
    \/ AuthToolResult
    \/ Tick
    \/ AuthStep

InitDispatch ==
    /\ InitCommon
    /\ InitDispatchLayer
    /\ serial = TRUE
    /\ envSet = FALSE
    /\ credFile["bundled"] = "absent"

SpecDispatch == InitDispatch /\ [][NextDispatch]_vars

-----------------------------------------------------------------------------
(* What a finished call is checked against *)

Done(p, o) == loc[p].pc = "done" /\ loc[p].op = o

Returned(p, o) == Done(p, o) /\ loc[p].status = "returned"

\* the token file the call started from holds a token with a refresh token
Persisted(l) ==
    l.file0.type = "authorized_user" /\ ~Falsy(l.file0.refresh_token)

\* ... whose expiry is strictly more than five minutes after the call's start
FreshAtStart(l) ==
    ~Falsy(l.file0.expiry_date) /\ l.file0.expiry_date > l.now0 + FiveMinutes

\* ... whose expiry is absent, or at or before five minutes after the start
StaleAtStart(l) ==
    Falsy(l.file0.expiry_date) \/ l.file0.expiry_date <= l.now0 + FiveMinutes

-----------------------------------------------------------------------------
C2_StaleTokenOneRefresh ==
    \A p \in Procs :
        LET l == loc[p]
        IN (/\ Returned(p, "getClient")
            /\ ~ioFailed
            /\ ~l.cached0
            /\ l.file0.type = "authorized_user"
            /\ StaleAtStart(l))
           => l.refreshCalls = 1

\* C3: when a refresh is required on a handle that has no refresh token,
\* refreshTokenIfNeeded makes no refresh call, fails with TokenExpiredError
\* and leaves the cached-handle slot empty.
C3_NoRefreshToken ==
    \A p \in Procs :
        LET l == loc[p]
        IN (/\ l.pc \in {"R_ok", "R_refresh", "R_err"}
            /\ NeedsRefresh(heap[l.auth], now)
            /\ Falsy(heap[l.auth].refresh_token))
           => /\ l.pc = "R_err"
              /\ l.err = "TokenExpiredError"
              /\ l.refreshCalls = l.freshCalls
              /\ authClient = NULL

C3_Witness ==
    \E p \in Procs :
        /\ loc[p].pc = "R_err"
        /\ loc[p].ret = 2
        /\ Falsy(heap[loc[p].auth].refresh_token)
        /\ loc[p].err = "TokenExpiredError"
        /\ authClient = NULL

\* C4: updateStoredToken changes only access_token and expiry_date of the
\* stored record: the record read back after it has written is the record
\* that was there before, with the handle's access token and expiry.
C4_UpdateChangesOnlyAccessFields ==
    [][\A p \in Procs :
          (loc[p].pc = "U_write" /\ loc'[p].pc = "R_ok")
          => tokenFile' = [tokenFile EXCEPT
                             !.access_token = heap[loc[p].auth].access_token,
                             !.expiry_date = heap[loc[p].auth].expiry_date]]_vars

C4_Witness ==
    \E p \in Procs :
        /\ loc[p].pc = "R_ok"
        /\ loc[p].refreshOk
        /\ tokenFile.access_token = loc[p].refreshed.access_token
        /\ tokenFile.access_token # loc[p].file0.access_token
        /\ tokenFile.expiry_date # loc[p].file0.expiry_date
        /\ tokenFile.refresh_token = loc[p].file0.refresh_token
        /\ ~Falsy(tokenFile.refresh_token)

\* the first existing path in the documented order: the override path, the
\* per-user file, the bundled file
DocumentedFirst ==
    IF envSet /\ Exists("env") THEN "env"
    ELSE IF Exists("user") THEN "user"
    ELSE IF Exists("bundled") THEN "bundled"
    ELSE "none"

\* C5: for every combination of existing credential files and of the override
\* variable, resolveCredentialsPath returns the first existing path in the
\* order override path, per-user file, bundled file.
C5_DocumentedOrder ==
    \A p \in Procs :
        (loc[p].credPath # "none" \/ loc[p].resolveFailed)
        => loc[p].credPath = DocumentedFirst

\* C6: when no candidate credential file exists, resolveCredentialsPath
\* fails, the paths its error names are the paths it probed, and the failing
\* resolution changes no file and not the cached handle.
C6_NotFoundNamesProbed ==
    /\ [](\A p \in Procs :
            /\ loc[p].credPath # "none" => Exists(loc[p].credPath)
            /\ loc[p].resolveFailed
               => /\ loc[p].named = loc[p].probed
                  /\ loc[p].probed = {CREDENTIALS_PATH, bundledPath}
                  /\ \A x \in loc[p].probed : ~Exists(x))
    /\ [][\A p \in Procs :
            (/\ loc[p].pc \in {"G_resolve", "A_resolve", "S_resolve"}
             /\ loc'[p].pc # loc[p].pc
             /\ loc'[p].resolveFailed)
            => /\ UNCHANGED <<tokenFile, tokenMode, credFile, envSet>>
               /\ loc[p].pc # "G_resolve" => UNCHANGED <<authClient, heap>>]_vars

C6_Witness ==
    \E p \in Procs :
        /\ Done(p, "getClient")
        /\ loc[p].resolveFailed
        /\ loc[p].status = "failed"
        /\ loc[p].cause = "NoCredentialsFound"
        /\ loc[p].named = {CREDENTIALS_PATH, bundledPath}

\* C7: isAuthenticated() never fails the caller: every failure of
\* getAuthClient is reported as false, in particular when neither a token
\* file nor a credential file exists.
C7_IsAuthenticatedNeverFails ==
    \A p \in Procs :
        Done(p, "isAuthenticated")
        => /\ loc[p].status = "returned"
           /\ loc[p].err = "none"
           /\ loc[p].cause # "none" => loc[p].retBool = FALSE
           /\ (~loc[p].cached0 /\ loc[p].file0 = NoFile
                 /\ ~resolveCredentialsPath.ok)
              => loc[p].retBool = FALSE

C7_Witness ==
    \E p \in Procs :
        /\ Returned(p, "isAuthenticated")
        /\ loc[p].file0 = NoFile
        /\ \A x \in CredPaths : ~Exists(x)
        /\ loc[p].cause = "NoCredentialsFound"
        /\ loc[p].retBool = FALSE

\* C8: with no token file, no cached handle and a usable credential file,
\* getClient() runs the interactive flow once; when the flow yields
\* credentials, the token file then holds the refresh token the flow
\* returned and getClient() returns a client with the access token the flow
\* returned.  (Every file operation of the call succeeds.)
C8_FreshInstall ==
    \A p \in Procs :
        LET l == loc[p]
        IN (/\ Done(p, "getClient")
            /\ ~l.faults
            /\ ~l.cached0
            /\ l.file0 = NoFile
            /\ resolveCredentialsPath.ok)
           => /\ l.flows = 1
              /\ l.refreshCalls = 0
              /\ l.flowOk
                 => /\ l.status = "returned"
                    /\ FileExists
                    /\ tokenFile.refresh_token = l.flowCreds.refresh_token
                    /\ tokenFile.access_token = l.flowCreds.access_token
                    /\ l.retClient # NULL
                    /\ heap[l.retClient].access_token = l.flowCreds.access_token

C8_Witness ==
    \E p \in Procs :
        /\ Returned(p, "getClient")
        /\ ~loc[p].faults /\ ~loc[p].cached0
        /\ loc[p].file0 = NoFile
        /\ loc[p].flows = 1 /\ loc[p].flowOk
        /\ ~Falsy(loc[p].flowCreds.refresh_token)
        /\ FileExists
        /\ tokenFile.refresh_token = loc[p].flowCreds.refresh_token
        /\ heap[loc[p].retClient].access_token = loc[p].flowCreds.access_token

\* C9: when getClient() finds an expired persisted token and the refresh call
\* succeeds, the token file then holds the new access token and expiry and
\* the refresh token it held before, and the returned handle carries the new
\* access token.  (Every file operation of the call succeeds.)
C9_RefreshPersists ==
    \A p \in Procs :
        LET l == loc[p]
        IN (/\ Done(p, "getClient")
            /\ ~l.faults
            /\ Persisted(l)
            /\ l.refreshOk)
           => /\ l.status = "returned"
              /\ tokenFile.access_token = l.refreshed.access_token
              /\ tokenFile.expiry_date = l.refreshed.expiry_date
              /\ tokenFile.refresh_token = l.file0.refresh_token
              /\ tokenFile.client_id = l.file0.client_id
              /\ l.retClient # NULL
              /\ heap[l.retClient].access_token = l.refreshed.access_token

C9_Witness ==
    \E p \in Procs :
        /\ Returned(p, "getClient")
        /\ ~loc[p].faults /\ ~loc[p].cached0
        /\ Persisted(loc[p])
        /\ loc[p].file0.expiry_date = loc[p].now0 - 1000
        /\ loc[p].refreshOk
        /\ tokenFile.access_token = loc[p].refreshed.access_token
        /\ tokenFile.access_token # loc[p].file0.access_token
        /\ tokenFile.expiry_date = loc[p].now0 + Hour
        /\ heap[loc[p].retClient].access_token = tokenFile.access_token

\* the call started authenticated: with a cached handle or a persisted token
Authenticated0(l) == l.cached0 \/ l.file0.type = "authorized_user"

\* C10 as stated: after a revoke() called while authenticated has completed,
\* the remote revoke has been invoked, the cached handle is empty and the
\* token file is absent; the isAuthenticated() that follows returns false
\* without raising.
C10_RevokeThenNotAuthenticated ==
    \A p \in Procs :
        LET l == loc[p]
        IN /\ (Returned(p, "revoke") /\ Authenticated0(l))
              => l.revoked /\ authClient = NULL /\ ~FileExists
           /\ (Done(p, "isAuthenticated") /\ l.afterRevoke)
              => l.status = "returned" /\ l.retBool = FALSE

\* C10 as amended: after a revoke() called while authenticated has completed,
\* the remote revoke has been invoked, the cached handle is empty, and the
\* token file is absent unless deleting it failed; the isAuthenticated() that
\* follows does not raise, and returns false unless the token file was left
\* behind or the interactive flow it starts yields credentials.
C10_RevokeClearsLocalState ==
    \A p \in Procs :
        LET l == loc[p]
        IN /\ (Returned(p, "revoke") /\ Authenticated0(l))
              => /\ l.revoked
                 /\ authClient = NULL
                 /\ FileExists <=> l.unlinkFailed
           /\ (Done(p, "isAuthenticated") /\ l.afterRevoke)
              => /\ l.status = "returned"
                 /\ l.err = "none"
                 /\ ~l.cached0
                 /\ l.retBool => (l.file0.type = "authorized_user" \/ l.flowOk)

C10_Witness ==
    \E p \in Procs :
        /\ Returned(p, "isAuthenticated")
        /\ loc[p].afterRevoke
        /\ ~loc[p].cached0
        /\ loc[p].file0 = NoFile
        /\ loc[p].flows = 1
        /\ loc[p].retBool = FALSE

\* the revoke() call got a client from getAuthClient and called the
\* provider's revoke operation on it
ObtainedClient(l) == l.revoked \/ l.cause = "RevokeFailed"

\* C11: after any revoke() call that obtained a client, the cached handle is
\* empty, whether the provider's revoke operation succeeded or failed.
C11_RevokeAlwaysClearsCache ==
    \A p \in Procs :
        (Done(p, "revoke") /\ ObtainedClient(loc[p])) => authClient = NULL

\* C12: once the remote revoke has succeeded, revoke() completes without
\* error, also when deleting the token file fails and when the token file is
\* already absent; the cached handle is empty in both cases.
C12_UnlinkFailureNotFatal ==
    \A p \in Procs :
        (Done(p, "revoke") /\ loc[p].revoked)
        => /\ loc[p].status = "returned"
           /\ loc[p].err = "none"
           /\ authClient = NULL

C12_Witness ==
    \E p \in Procs :
        /\ Returned(p, "revoke")
        /\ loc[p].revoked
        /\ loc[p].unlinkFailed
        /\ FileExists
        /\ authClient = NULL

\* C13: in every reachable state, a token file that exists holds a non-empty
\* refresh_token, whatever the interactive flow and the refresh call return.
C13_FileHasRefreshToken ==
    FileExists => ~Falsy(tokenFile.refresh_token)

\* the generation of a token: the provider's tokens in the order it issued
\* them (an earlier run's token first)
Generation(c) == c.access_token

\* C14: in every reachable state, also with interleaved calls, a non-empty
\* cached handle carries a token generation that is the same as or newer
\* than the generation stored in the token file.
C14_CacheNotOlderThanDisk ==
    (authClient # NULL /\ FileExists)
    => Generation(heap[authClient]) >= Generation(tokenFile)

\* the positions of step 2 of getAuthClient before refreshTokenIfNeeded
Step2Loading == {"G_readTok", "G_resolve", "G_readCred"}

\* C15: when refreshTokenIfNeeded fails on the cached handle (step 1),
\* getAuthClient does not fail: it discards the cached handle and goes on to
\* read the token file (step 2); when step 2 fails, at any of its
\* operations, it goes on to authenticate().
C15_FallbackChain ==
    [][\A p \in Procs :
          LET l == loc[p]
              l2 == loc'[p]
          IN (l2 # l) =>
               /\ (l.pc = "R_err" /\ l.ret = 1)
                  => /\ l2.pc = "G_readTok"
                     /\ l2.status = "running"
                     /\ authClient' = NULL
               /\ (l.pc = "R_err" /\ l.ret = 2)
                  => /\ l2.pc = "A_resolve"
                     /\ l2.status = "running"
                     /\ authClient' = NULL
               /\ (l.pc \in Step2Loading)
                  => /\ l2.status = "running"
                     /\ l2.pc \in Step2Loading
                                  \cup {"R_ok", "R_refresh", "R_err", "A_resolve"}
                     /\ l2.pc = "R_err" => l2.ret = 2
               /\ (l.pc \in {"R_refresh", "U_read", "U_write"})
                  => /\ l2.status = "running"
                     /\ l2.pc \in {"U_read", "U_write", "R_ok", "R_err"}
                     /\ l2.ret = l.ret]_vars

\* a call whose step 1 failed, whose step 2 then failed too, and which has
\* gone on to authenticate()
C15_Witness ==
    \E p \in Procs :
        /\ loc[p].op = "getClient"
        /\ loc[p].cached0
        /\ loc[p].ret = 2
        /\ loc[p].refreshCalls = 2
        /\ loc[p].pc = "A_resolve"
        /\ authClient = NULL

\* C16 as stated: getClient() fails only when credential resolution fails or
\* the interactive flow itself fails.
C16_FailsOnlyOnResolveOrFlow ==
    \A p \in Procs :
        (Done(p, "getClient") /\ loc[p].status = "failed")
        => loc[p].cause \in {"NoCredentialsFound", "FlowFailed"}

\* C16 as amended: getClient() fails only when credential resolution fails,
\* the interactive flow itself fails, or authenticate() cannot create the
\* token directory or persist the token it obtained; every failure before
\* authenticate() (token read, token parse, refresh, update of the stored
\* token) is absorbed, and a getClient() that does not fail returns a client.
C16_FailsOnlyInAuthenticate ==
    \A p \in Procs :
        LET l == loc[p]
        IN Done(p, "getClient")
           => /\ l.status \in {"failed", "returned"}
              /\ l.status = "failed"
                 => /\ l.err = "AuthenticationError"
                    /\ l.cause \in {"NoCredentialsFound", "FlowFailed",
                                    "MkdirFailed", "FailedToSaveToken"}
                    /\ l.cause = "NoCredentialsFound" <=> l.resolveFailed
                    /\ l.cause \in {"FlowFailed", "MkdirFailed"} => ~l.flowOk
                    /\ l.cause = "FailedToSaveToken" => l.flowOk
              /\ l.status = "returned" => l.retClient # NULL

\* a failed refresh and a failed update of the stored token were absorbed
C16_Witness ==
    \E p \in Procs :
        /\ Returned(p, "getClient")
        /\ loc[p].cached0
        /\ loc[p].refreshCalls = 2
        /\ loc[p].faults
        /\ loc[p].flows = 1 /\ loc[p].flowOk
        /\ loc[p].retClient # NULL

\* C17: when credential resolution fails inside authenticate(), its error
\* reaches the caller as it was thrown (not wrapped again), the interactive
\* flow is not started and no token file is written.
C17_NotFoundUnmodified ==
    \A p \in Procs :
        LET l == loc[p]
        IN (l.pc = "done" /\ l.cause = "NoCredentialsFound")
           => /\ l.resolveFailed
              /\ ~l.wrapped
              /\ l.flows = 0
              /\ ~l.flowOk
              /\ tokenFile = l.file0
              /\ l.op = "getClient"
                 => l.status = "failed" /\ l.err = "AuthenticationError"

C17_Witness ==
    \E p \in Procs :
        /\ Done(p, "getClient")
        /\ loc[p].file0.type = "authorized_user"
        /\ loc[p].cause = "NoCredentialsFound"
        /\ ~loc[p].wrapped
        /\ loc[p].flows = 0
        /\ tokenFile = loc[p].file0

\* C18: authenticate() returns a client only when the result of the
\* interactive flow carries credentials and the token record was persisted;
\* every other outcome of the flow makes it fail with AuthenticationError.
C18_ReturnsOnlyWhenPersisted ==
    \A p \in Procs :
        LET l == loc[p]
        IN (Done(p, "getClient") /\ l.flows = 1)
           => /\ l.status = "returned"
                 => /\ l.flowOk
                    /\ tokenFile = saveToken(l.credPath, l.flowCreds)
              /\ l.status # "returned"
                 => l.status = "failed" /\ l.err = "AuthenticationError"

\* C19: any failure inside refreshTokenIfNeeded while a refresh is required
\* (the refresh call fails, or storing the new access token fails) leaves
\* the cached-handle slot empty and surfaces as TokenExpiredError.
C19_RefreshFailureClearsCache ==
    [][\A p \in Procs :
          (loc'[p].pc = "R_err" /\ loc[p].pc # "R_err")
          => /\ authClient' = NULL
             /\ loc'[p].err = "TokenExpiredError"
             /\ loc'[p].freshErr = "TokenExpiredError"
             /\ loc'[p].status = "running"
             /\ loc'[p].cause \in {"NoRefreshToken", "RefreshFailed",
                                   "FailedToUpdate"}]_vars

\* the refresh call succeeded, storing the new token failed
C19_Witness ==
    \E p \in Procs :
        /\ loc[p].pc = "R_err"
        /\ loc[p].refreshOk
        /\ loc[p].cause = "FailedToUpdate"
        /\ loc[p].err = "TokenExpiredError"
        /\ loc[p].cached0
        /\ authClient = NULL

\* C20: updateStoredToken fails when the existing token record cannot be
\* read or parsed, and then it neither creates nor modifies the token file.
C20_UpdateNeedsStoredRecord ==
    [][\A p \in Procs :
          (loc[p].pc = "U_read" /\ loc'[p] # loc[p])
          => /\ ~FileExists => loc'[p].pc = "R_err"
             /\ loc'[p].pc = "R_err"
                => /\ loc'[p].cause = "FailedToUpdate"
                   /\ UNCHANGED <<tokenFile, tokenMode>>
             /\ loc'[p].pc # "R_err"
                => /\ loc'[p].pc = "U_write"
                   /\ UNCHANGED <<tokenFile, tokenMode>>]_vars

\* the token file was not there when updateStoredToken read it, and is not
\* there afterwards
C20_Witness ==
    \E p \in Procs :
        /\ loc[p].pc = "R_err"
        /\ loc[p].refreshOk
        /\ loc[p].cause = "FailedToUpdate"
        /\ ~loc[p].faults
        /\ ~FileExists

-----------------------------------------------------------------------------
(* YouTubeClient.withRetry (src/src/youtube/youtube-client.ts): the wrapped *)
(* operation is called in a loop; the call is cut at its awaits            *)

MaxRetriesBound == 4

DefaultMaxRetries == 3

TooManyRequests == 429

\* the errors the wrapped operation may throw: an HTTP status and whether
\* the message contains 'quotaExceeded'
ApiErrors ==
    {[kind |-> "api", code |-> c, quota |-> q] :
        c \in {TooManyRequests, 403, 500}, q \in BOOLEAN}

MaxRetriesExceeded == [kind |-> "MaxRetriesExceeded", code |-> 0, quota |-> FALSE]

RECURSIVE Pow(_, _)
Pow(b, n) == IF n = 0 THEN 1 ELSE b * Pow(b, n - 1)

\* mutant: every error is retried
IsRateLimitAny(e) == TRUE

\* `error.code === 429 || error.message?.includes('quotaExceeded')`
IsRateLimit(e) == e.code = TooManyRequests \/ e.quota

\* `Math.pow(2, i) * 1000`, in milliseconds
Delay(i) == Pow(2, i) * 1000

\* the loop condition `i < maxRetries` is tested: fn() is called, or the
\* loop is left and 'Max retries exceeded' is thrown
LoopTest(r) ==
    IF r.i < r.maxRetries
    THEN [r EXCEPT !.pc = "fn", !.attempts = @ + 1]
    ELSE [r EXCEPT !.pc = "done", !.result = "thrown",
                   !.thrown = MaxRetriesExceeded]

\* the catch block for error e of attempt i
Catch(r, e) ==
    LET r1 == [r EXCEPT !.errs = Append(@, e)]
    IN IF r.i = r.maxRetries - 1
       THEN [r1 EXCEPT !.pc = "done", !.result = "thrown", !.thrown = e]
       ELSE IF IsRateLimit(e)
       THEN [r1 EXCEPT !.pc = "wait", !.waits = Append(@, Delay(r.i))]
       ELSE [r1 EXCEPT !.pc = "done", !.result = "thrown", !.thrown = e]

retryFrame == <<envSet, credFile, tokenFile, tokenMode, authClient, heap, now,
                ticks, issued, serial, ioFailed, loc, dispatchVars>>

\* withRetry(fn, maxRetries) is called
WithRetry ==
    /\ retry.pc = "idle"
    /\ retry' = LoopTest([retry EXCEPT !.i = 0])
    /\ UNCHANGED retryFrame

\* fn() resolves: withRetry returns its value
FnReturns ==
    /\ retry.pc = "fn"
    /\ retry' = [retry EXCEPT !.pc = "done", !.result = "returned"]
    /\ UNCHANGED retryFrame

\* fn() rejects
FnThrows ==
    /\ retry.pc = "fn"
    /\ \E e \in ApiErrors : retry' = Catch(retry, e)
    /\ UNCHANGED retryFrame

\* the timer of the backoff fires: `continue`
WaitOver ==
    /\ retry.pc = "wait"
    /\ retry' = LoopTest([retry EXCEPT !.i = @ + 1])
    /\ UNCHANGED retryFrame

NextRetry ==
    \/ WithRetry
    \/ FnReturns
    \/ FnThrows
    \/ WaitOver

\* one call of withRetry, with maxRetries given or defaulted
InitRetry ==
    /\ envSet = FALSE
    /\ credFile = [x \in CredPaths |-> "absent"]
    /\ tokenFile = NoFile
    /\ tokenMode = "none"
    /\ authClient = NULL
    /\ heap = [h \in Handles |-> EmptyCreds]
    /\ now = Hour
    /\ ticks = 0
    /\ issued = 0
    /\ ioFailed = FALSE
    /\ serial = TRUE
    /\ loc = [p \in Procs |-> IdleLoc]
    /\ youtubeClientCache = NULL
    /\ tool = IdleTool
    /\ \E m \in {DefaultMaxRetries} \cup (0 .. MaxRetriesBound) :
          retry = [IdleRetry EXCEPT !.maxRetries = m]

SpecRetry == InitRetry /\ [][NextRetry]_vars

-----------------------------------------------------------------------------
\* C21: every tool invocation calls getAuthClient() before its API call goes
\* out, so the freshness check runs on each invocation, also after a first
\* invocation has succeeded.
C21_EveryInvocationChecksFreshness ==
    tool.name = "api" /\ tool.pc = "api" => tool.checked

-----------------------------------------------------------------------------
InFlow == {p \in Procs : loc[p].pc = "A_flow"}

Running == {p \in Procs : loc[p].status = "running"}

\* C22: calls interleaved at their awaits can both reach authenticate() and
\* have two consent flows in flight (C22_Witness); a call launches at most
\* one flow and awaits it, so there are never more flows in flight than calls
\* in flight: with strictly sequential calls, at most one.
C22_OneFlowPerCallInFlight ==
    /\ \A p \in Procs : loc[p].flows <= 1
    /\ \A p \in InFlow : p \in Running /\ loc[p].flows = 1
    /\ Cardinality(InFlow) <= Cardinality(Running)

C22_Witness ==
    /\ ~serial
    /\ InFlow = Procs
    /\ \A p \in Procs : loc[p].op = "getClient" /\ loc[p].flows = 1

-----------------------------------------------------------------------------
\* C23: whenever no call is in flight and the token file exists, its
\* permissions are owner-read/write only (0600), whatever saves, updates and
\* failed operations came before.
C23_TokenFileOwnerOnly ==
    (\A p \in Procs : Idle(p)) /\ FileExists => tokenMode = "0600"

-----------------------------------------------------------------------------
\* C24: isAuthenticated() called with nothing cached, no token file and a
\* usable credential file starts the interactive flow (when making the token
\* directory succeeds); when the flow yields credentials the status check
\* leaves a cached client and a new token file behind.
C24_StatusCheckAuthenticates ==
    \A p \in Procs :
        (/\ Done(p, "isAuthenticated")
         /\ ~loc[p].cached0
         /\ loc[p].file0 = NoFile
         /\ resolveCredentialsPath.ok
         /\ ~loc[p].faults)
        => /\ loc[p].flows = 1
           /\ loc[p].flowOk
              => /\ authClient # NULL
                 /\ heap[authClient] = loc[p].flowCreds
                 /\ FileExists
                 /\ tokenFile.access_token = loc[p].flowCreds.access_token
                 /\ loc[p].retBool

C24_Witness ==
    \E p \in Procs :
        /\ Returned(p, "isAuthenticated")
        /\ ~loc[p].cached0
        /\ loc[p].file0 = NoFile
        /\ loc[p].flows = 1
        /\ loc[p].flowOk
        /\ authClient # NULL
        /\ FileExists
        /\ loc[p].retBool

-----------------------------------------------------------------------------
\* C25 as stated: a single getClient() performs at most one refresh call and
\* at most one interactive authentication (here: in runs in which no file
\* operation has failed).
C25_OneRefreshOneFlow ==
    \A p \in Procs :
        loc[p].op = "getClient" /\ ~ioFailed /\ ~loc[p].faults
        => loc[p].refreshCalls <= 1 /\ loc[p].flows <= 1

\* C25 amended: a single getClient() performs at most one refresh call per
\* step (one on the cached handle, one on the handle rebuilt from the token
\* file), so at most two, two only when it started with a cached handle, and
\* at most one interactive authentication.
C25_OneRefreshPerStepOneFlow ==
    \A p \in Procs :
        loc[p].op = "getClient"
        => /\ loc[p].refreshCalls <= 2
           /\ ~loc[p].cached0 => loc[p].refreshCalls <= 1
           /\ loc[p].flows <= 1

C25_Witness ==
    \E p \in Procs :
        /\ Done(p, "getClient")
        /\ loc[p].cached0
        /\ loc[p].refreshCalls = 2
        /\ loc[p].flows = 1
        /\ ~loc[p].faults

-----------------------------------------------------------------------------
\* what authenticate() fails with
AuthenticateFailures ==
    {"NoCredentialsFound", "MkdirFailed", "FlowFailed", "FailedToSaveToken"}

\* C26: whenever authenticate() has failed, also when the flow succeeded and
\* saving the token failed, no client is cached once the call has ended.
C26_FailedAuthenticateLeavesCacheEmpty ==
    \A p \in Procs :
        (loc[p].pc = "done" /\ loc[p].cause \in AuthenticateFailures)
        => authClient = NULL

-----------------------------------------------------------------------------
\* C27: under interleaved calls the cached handle is discarded only by a
\* step of a call that works on that very handle and fails, or by revoke.
C27_CacheEmptiedOnlyForOwnHandle ==
    [][(authClient # NULL /\ authClient' = NULL)
       => \E p \in Procs :
             /\ loc'[p] # loc[p]
             /\ \/ loc[p].auth = authClient
                \/ loc'[p].auth = authClient
                \/ loc[p].op = "revoke" /\ loc[p].pc = "V_revoke"]_vars

-----------------------------------------------------------------------------
\* C28: between tool invocations a cached YouTube client wraps the handle
\* the AuthManager has cached, and no API call goes out with a handle the
\* AuthManager has discarded or replaced.
\* (Stated for clients whose handle holds credentials, in runs in which no
\* file operation has failed.)
C28_ClientWrapsCachedHandle ==
    ~ioFailed
    => /\ (/\ ToolIdle
           /\ youtubeClientCache # NULL
           /\ ~Falsy(heap[youtubeClientCache].access_token))
          => youtubeClientCache = authClient
       /\ (tool.pc = "api" /\ ~Falsy(heap[tool.wraps].access_token))
          => ~tool.stale

-----------------------------------------------------------------------------
\* C29: every getClient(), isAuthenticated() and revoke() call eventually
\* returns or fails, provided every external call it awaits eventually
\* answers.
C29_EveryCallEnds ==
    \A p \in Procs : (loc[p].status = "running") ~> (loc[p].pc = "done")

\* a revoke() that went through the whole chain: refresh of the cached
\* handle, reload and refresh, interactive flow, save, remote revoke, unlink
C29_Witness ==
    \E p \in Procs :
        /\ Done(p, "revoke")
        /\ loc[p].cached0
        /\ loc[p].refreshCalls = 2
        /\ loc[p].flows = 1
        /\ loc[p].revoked
        /\ loc[p].unlinked

-----------------------------------------------------------------------------
\* C30: withRetry calls the wrapped operation at most maxRetries times; it
\* retries only after an error with code 429 or with 'quotaExceeded' in its
\* message; any other error is thrown at once, the first attempt's included;
\* the error thrown after attempts is that of the last attempt; the wait
\* before retry i (from 0) is 2^i seconds.
C30_WithRetry ==
    LET r == retry
        n == Len(r.errs)
        RateLimited(e) == e.code = 429 \/ e.quota
    IN /\ r.attempts <= r.maxRetries
       /\ Len(r.waits) = (IF r.pc = "wait" THEN r.attempts
                          ELSE IF r.attempts = 0 THEN 0 ELSE r.attempts - 1)
       /\ \A k \in 1 .. Len(r.waits) :
             /\ RateLimited(r.errs[k])
             /\ r.waits[k] = Pow(2, k - 1) * 1000
       /\ (r.pc = "done" /\ r.result = "thrown" /\ r.attempts > 0)
          => /\ n = r.attempts
             /\ r.thrown = r.errs[n]
             /\ r.attempts < r.maxRetries => ~RateLimited(r.thrown)
       /\ (n >= 1 /\ ~RateLimited(r.errs[1]))
          => /\ r.attempts = 1
             /\ r.pc = "done" /\ r.result = "thrown" /\ r.thrown = r.errs[1]

\* the default of three attempts, all rate limited: waits of 1 s and 2 s,
\* then the third error is thrown
C30_Witness ==
    /\ retry.pc = "done"
    /\ retry.maxRetries = DefaultMaxRetries
    /\ retry.attempts = 3
    /\ retry.waits = <<1000, 2000>>
    /\ retry.result = "thrown"
    /\ retry.thrown = retry.errs[3]
    /\ retry.errs[1].code = TooManyRequests
    /\ retry.errs[2].quota /\ retry.errs[2].code # TooManyRequests

====
